---- MODULE Spec2Model ----
(***************************************************************************)
(* Model of compiler/mono/src/gen_refcount.rs: RefcountProcGenerator.      *)
(* The generator expands ModifyRc statements into IR that calls helper     *)
(* procedures (expand_refcount_stmt), keeps the list of helpers still to   *)
(* be generated (procs_to_generate) and synthesises them on request        *)
(* (generate_refcount_procs, gen_modify_str).                              *)
(***************************************************************************)
EXTENDS Integers, Sequences, FiniteSets, TLC

VARIABLES
    procs_to_generate,  \* self.procs_to_generate: Seq of <<layout, op, symbol>>
    next_symbol_id,     \* self.next_symbol_id
    intwidth_isize,     \* constructor argument: width of isize on the target
    ident_ids,          \* the caller's IdentIds (names by IdentId), passed by &mut
    aborted,            \* a panic (todo!/unreachable!) has unwound the pass
    ncalls,             \* number of expand_refcount_stmt calls made
    drains,             \* number of generate_refcount_procs calls made
    call_sites,         \* every by-name call emitted: [layout, op, name, nargs]
    pass_start,         \* Len(call_sites) when the registry was last drained
    all_procs,          \* every Proc returned by generate_refcount_procs
    reported,           \* every (Symbol, ProcLayout) returned as new-procedure info
    issued,             \* every Symbol unique_symbol has returned, in order
    result              \* what the last operation returned

vars == <<procs_to_generate, next_symbol_id, intwidth_isize, ident_ids, aborted,
          ncalls, drains, call_sites, pass_start, all_procs, reported, issued,
          result>>

----------------------------------------------------------------------------
(* Bounds *)

MaxExpands == 3
MaxDrains == 2
MaxAmount == 2
MaxUserIdents == 1
MaxStrLen == 1

----------------------------------------------------------------------------
(* Symbols, layouts, IR constructors *)

HOME == "home"

\* Symbol::new(module, IdentId(id))
Symbol(module, id) == <<module, id>>

ARG_1 == Symbol("ATTR", 1)
ARG_2 == Symbol("ATTR", 2)

Builtin(b) == [tag |-> "Builtin", builtin |-> b]
Struct(fields) == [tag |-> "Struct", fields |-> fields]

LAYOUT_BOOL == Builtin([tag |-> "Bool"])
LAYOUT_UNIT == Struct(<<>>)
LAYOUT_PTR == [tag |-> "RecursivePointer"]
LAYOUT_U32 == Builtin([tag |-> "Int", width |-> "U32"])
LAYOUT_STR == Builtin([tag |-> "Str"])

\* IntWidth::stack_size
stack_size(width) ==
    CASE width = "I32" -> 4
      [] width = "U32" -> 4
      [] width = "I64" -> 8

\* RefcountProcGenerator::new: layout_isize
layout_isize_of(width) == Builtin([tag |-> "Int", width |-> width])

RefcountOp == {"Inc", "Dec", "DecRef"}

\* Layouts of the values whose refcount is modified
Layouts ==
    { LAYOUT_STR,
      Builtin([tag |-> "List", elem |-> LAYOUT_STR]),
      Builtin([tag |-> "Int", width |-> "I64"]) }

\* ModifyRc
ModifyInc(structure, amount) == [tag |-> "Inc", structure |-> structure, amount |-> amount]
ModifyDec(structure) == [tag |-> "Dec", structure |-> structure]
ModifyDecRef(structure) == [tag |-> "DecRef", structure |-> structure]

\* Stmt
Let(sym, expr, layout, next) ==
    [tag |-> "Let", sym |-> sym, expr |-> expr, layout |-> layout, next |-> next]
Ret(sym) == [tag |-> "Ret", sym |-> sym]
Jump(id) == [tag |-> "Jump", id |-> id]
Switch(cond_symbol, cond_layout, branches, default_branch, ret_layout) ==
    [tag |-> "Switch", cond_symbol |-> cond_symbol, cond_layout |-> cond_layout,
     branches |-> branches, default_branch |-> default_branch,
     ret_layout |-> ret_layout]

\* Expr
Literal(n) == [tag |-> "Literal", int |-> n]
StructAtIndex(index, field_layouts, structure) ==
    [tag |-> "StructAtIndex", index |-> index, field_layouts |-> field_layouts,
     structure |-> structure]
EmptyStruct == [tag |-> "Struct", fields |-> <<>>]
CallByName(name, ret_layout, arg_layouts, arguments) ==
    [tag |-> "Call",
     call_type |-> [tag |-> "ByName", name |-> name, ret_layout |-> ret_layout,
                    arg_layouts |-> arg_layouts,
                    specialization_id |-> "BACKEND_DUMMY"],
     arguments |-> arguments]
CallLowLevel(op, arguments) ==
    [tag |-> "Call",
     call_type |-> [tag |-> "LowLevel", op |-> op, update_mode |-> "BACKEND_DUMMY"],
     arguments |-> arguments]

None == [tag |-> "None"]
Some(v) == [tag |-> "Some", val |-> v]

----------------------------------------------------------------------------
(* The generator: operations take the mutable state as a record s and      *)
(* return the new state next to their result.                              *)

Self ==
    [procs_to_generate |-> procs_to_generate,
     next_symbol_id |-> next_symbol_id,
     ptr_size |-> stack_size(intwidth_isize),
     layout_isize |-> layout_isize_of(intwidth_isize),
     ident_ids |-> ident_ids,
     issued |-> issued]

\* IdentIds::add: the new name gets the next free IdentId
ident_ids_add(ids, name) == [id |-> Len(ids), ids |-> Append(ids, name)]

\* Interns::from_index(home, id)
from_index(home, id) == Symbol(home, id)

unique_symbol(s) ==
    [sym |-> from_index(HOME, s.next_symbol_id),
     s |-> [s EXCEPT !.next_symbol_id = @ + 1,
                     !.issued = Append(@, from_index(HOME, s.next_symbol_id))]]

create_symbol(s, name) ==
    LET a == ident_ids_add(s.ident_ids, name)
    IN  [sym |-> Symbol(HOME, a.id), s |-> [s EXCEPT !.ident_ids = a.ids]]

\* layout_debug_name that gives the builtins that are not refcounted a name
layout_debug_name_names_all(layout) ==
    CASE layout.tag = "Builtin" /\ layout.builtin.tag = "List" -> "list"
      [] layout.tag = "Builtin" /\ layout.builtin.tag = "Set" -> "set"
      [] layout.tag = "Builtin" /\ layout.builtin.tag = "Dict" -> "dict"
      [] layout.tag = "Builtin" /\ layout.builtin.tag = "Str" -> "str"
      [] layout.tag = "Builtin"
           /\ layout.builtin.tag \notin {"List", "Set", "Dict", "Str"} -> "builtin"
      [] layout.tag = "Struct" -> "struct"
      [] layout.tag = "Union" -> "union"
      [] layout.tag = "LambdaSet" -> "lambdaset"
      [] layout.tag = "RecursivePointer" -> "recursive_pointer"

\* "unreachable" stands for the unreachable!() panic on a non-refcounted builtin
layout_debug_name(layout) ==
    CASE layout.tag = "Builtin" /\ layout.builtin.tag = "List" -> "list"
      [] layout.tag = "Builtin" /\ layout.builtin.tag = "Set" -> "set"
      [] layout.tag = "Builtin" /\ layout.builtin.tag = "Dict" -> "dict"
      [] layout.tag = "Builtin" /\ layout.builtin.tag = "Str" -> "str"
      [] layout.tag = "Builtin"
           /\ layout.builtin.tag \notin {"List", "Set", "Dict", "Str"} -> "unreachable"
      [] layout.tag = "Struct" -> "struct"
      [] layout.tag = "Union" -> "union"
      [] layout.tag = "LambdaSet" -> "lambdaset"
      [] layout.tag = "RecursivePointer" -> "recursive_pointer"

MinOf(S) == CHOOSE x \in S : \A y \in S : x <= y

\* format!("#rc{:?}_{}_{}", op, layout_name, unique_idx)
DebugName(op, layout_name, unique_idx) ==
    "#rc" \o op \o "_" \o layout_name \o "_" \o ToString(unique_idx)

\* get_proc_symbol that takes a new identifier but does not keep the grown
\* identifier source, so the next identifier created is the same one
get_proc_symbol_id_not_recorded(s, layout, op) ==
    LET found == { i \in 1..Len(s.procs_to_generate) :
                     /\ s.procs_to_generate[i][1] = layout
                     /\ s.procs_to_generate[i][2] = op }
        layout_name == layout_debug_name(layout)
        unique_idx == Len(s.procs_to_generate)
        c == create_symbol(s, DebugName(op, layout_name, unique_idx))
    IN  IF found # {}
        THEN [panic |-> FALSE, is_existing |-> TRUE,
              sym |-> s.procs_to_generate[MinOf(found)][3], s |-> s]
        ELSE IF layout_name = "unreachable"
        THEN [panic |-> TRUE, is_existing |-> FALSE, sym |-> ARG_1, s |-> s]
        ELSE [panic |-> FALSE, is_existing |-> FALSE, sym |-> c.sym,
              s |-> [s EXCEPT !.procs_to_generate =
                                  Append(@, <<layout, op, c.sym>>)]]

\* get_proc_symbol without the lookup: every request registers a new helper
get_proc_symbol_always_new(s, layout, op) ==
    LET layout_name == layout_debug_name(layout)
        unique_idx == Len(s.procs_to_generate)
        c == create_symbol(s, DebugName(op, layout_name, unique_idx))
    IN  IF layout_name = "unreachable"
        THEN [panic |-> TRUE, is_existing |-> FALSE, sym |-> ARG_1, s |-> s]
        ELSE [panic |-> FALSE, is_existing |-> FALSE, sym |-> c.sym,
              s |-> [c.s EXCEPT !.procs_to_generate =
                                    Append(@, <<layout, op, c.sym>>)]]

\* get_proc_symbol that inserts a new entry at the front of the list
get_proc_symbol_push_front(s, layout, op) ==
    LET found == { i \in 1..Len(s.procs_to_generate) :
                     /\ s.procs_to_generate[i][1] = layout
                     /\ s.procs_to_generate[i][2] = op }
        layout_name == layout_debug_name(layout)
        unique_idx == Len(s.procs_to_generate)
        c == create_symbol(s, DebugName(op, layout_name, unique_idx))
    IN  IF found # {}
        THEN [panic |-> FALSE, is_existing |-> TRUE,
              sym |-> s.procs_to_generate[MinOf(found)][3], s |-> s]
        ELSE IF layout_name = "unreachable"
        THEN [panic |-> TRUE, is_existing |-> FALSE, sym |-> ARG_1, s |-> s]
        ELSE [panic |-> FALSE, is_existing |-> FALSE, sym |-> c.sym,
              s |-> [c.s EXCEPT !.procs_to_generate =
                                    << <<layout, op, c.sym>> >> \o @]]

get_proc_symbol(s, layout, op) ==
    LET found == { i \in 1..Len(s.procs_to_generate) :
                     /\ s.procs_to_generate[i][1] = layout
                     /\ s.procs_to_generate[i][2] = op }
    IN  IF found # {}
        THEN [panic |-> FALSE, is_existing |-> TRUE,
              sym |-> s.procs_to_generate[MinOf(found)][3], s |-> s]
        ELSE LET layout_name == layout_debug_name(layout)
                 unique_idx == Len(s.procs_to_generate)
                 c == create_symbol(s, DebugName(op, layout_name, unique_idx))
             IN  IF layout_name = "unreachable"
                 THEN [panic |-> TRUE, is_existing |-> FALSE, sym |-> ARG_1, s |-> s]
                 ELSE [panic |-> FALSE, is_existing |-> FALSE, sym |-> c.sym,
                       s |-> [c.s EXCEPT !.procs_to_generate =
                                             Append(@, <<layout, op, c.sym>>)]]

ProcLayout(arguments, res) == [arguments |-> arguments, result |-> res]

Panicked(s) == [panic |-> TRUE, stmt |-> None, info |-> None, s |-> s]

\* expand_inc that passes the arguments in the wrong order
expand_inc_swapped(s, layout, structure, amount, following) ==
    LET p == get_proc_symbol(s, layout, "Inc")
        a == create_symbol(p.s, "amount")
        amount_sym == a.sym
        amount_expr == Literal(amount)
        arg_layouts == <<layout, s.layout_isize>>
        u == unique_symbol(a.s)
        call_result_dummy == u.sym
        call_expr == CallByName(p.sym, LAYOUT_UNIT, arg_layouts,
                                <<amount_sym, structure>>)
        call_stmt == Let(call_result_dummy, call_expr, LAYOUT_UNIT, following)
        rc_stmt == Let(amount_sym, amount_expr, LAYOUT_UNIT, call_stmt)
        new_proc_info == IF p.is_existing THEN None
                         ELSE Some(<<p.sym, ProcLayout(arg_layouts, LAYOUT_UNIT)>>)
    IN  IF p.panic THEN Panicked(p.s)
        ELSE [panic |-> FALSE, stmt |-> rc_stmt, info |-> new_proc_info, s |-> u.s]

expand_inc(s, layout, structure, amount, following) ==
    LET p == get_proc_symbol(s, layout, "Inc")
        a == create_symbol(p.s, "amount")
        amount_sym == a.sym
        amount_expr == Literal(amount)
        arg_layouts == <<layout, s.layout_isize>>
        u == unique_symbol(a.s)
        call_result_dummy == u.sym
        call_expr == CallByName(p.sym, LAYOUT_UNIT, arg_layouts,
                                <<structure, amount_sym>>)
        call_stmt == Let(call_result_dummy, call_expr, LAYOUT_UNIT, following)
        rc_stmt == Let(amount_sym, amount_expr, LAYOUT_UNIT, call_stmt)
        new_proc_info == IF p.is_existing THEN None
                         ELSE Some(<<p.sym, ProcLayout(arg_layouts, LAYOUT_UNIT)>>)
    IN  IF p.panic THEN Panicked(p.s)
        ELSE [panic |-> FALSE, stmt |-> rc_stmt, info |-> new_proc_info, s |-> u.s]

\* expand_dec that reports the helper on every use, not only the first
expand_dec_always_reports(s, layout, structure, following) ==
    LET p == get_proc_symbol(s, layout, "Dec")
        arg_layouts == <<layout, s.layout_isize>>
        u == unique_symbol(p.s)
        call_result_dummy == u.sym
        call_expr == CallByName(p.sym, LAYOUT_UNIT, <<layout>>, <<structure>>)
        rc_stmt == Let(call_result_dummy, call_expr, LAYOUT_UNIT, following)
        new_proc_info == Some(<<p.sym, ProcLayout(arg_layouts, LAYOUT_UNIT)>>)
    IN  IF p.panic THEN Panicked(p.s)
        ELSE [panic |-> FALSE, stmt |-> rc_stmt, info |-> new_proc_info, s |-> u.s]

\* expand_dec whose call declares the two argument layouts of the Inc call
expand_dec_two_layouts(s, layout, structure, following) ==
    LET p == get_proc_symbol(s, layout, "Dec")
        arg_layouts == <<layout, s.layout_isize>>
        u == unique_symbol(p.s)
        call_result_dummy == u.sym
        call_expr == CallByName(p.sym, LAYOUT_UNIT, arg_layouts, <<structure>>)
        rc_stmt == Let(call_result_dummy, call_expr, LAYOUT_UNIT, following)
        new_proc_info == IF p.is_existing THEN None
                         ELSE Some(<<p.sym, ProcLayout(arg_layouts, LAYOUT_UNIT)>>)
    IN  IF p.panic THEN Panicked(p.s)
        ELSE [panic |-> FALSE, stmt |-> rc_stmt, info |-> new_proc_info, s |-> u.s]

expand_dec(s, layout, structure, following) ==
    LET p == get_proc_symbol(s, layout, "Dec")
        arg_layouts == <<layout, s.layout_isize>>
        u == unique_symbol(p.s)
        call_result_dummy == u.sym
        call_expr == CallByName(p.sym, LAYOUT_UNIT, <<layout>>, <<structure>>)
        rc_stmt == Let(call_result_dummy, call_expr, LAYOUT_UNIT, following)
        new_proc_info == IF p.is_existing THEN None
                         ELSE Some(<<p.sym, ProcLayout(arg_layouts, LAYOUT_UNIT)>>)
    IN  IF p.panic THEN Panicked(p.s)
        ELSE [panic |-> FALSE, stmt |-> rc_stmt, info |-> new_proc_info, s |-> u.s]

\* expand_decref that registers a DecRef helper for the layout, like Inc and Dec
expand_decref_registers(s, layout, structure, following) ==
    LET p == get_proc_symbol(s, layout, "DecRef")
        u1 == unique_symbol(p.s)
        rc_ptr_sym == u1.sym
        rc_ptr_expr == CallLowLevel("RefCountGetPtr", <<structure>>)
        u2 == unique_symbol(u1.s)
        call_result_dummy == u2.sym
        call_expr == CallLowLevel("RefCountDec", <<rc_ptr_sym>>)
        call_stmt == Let(call_result_dummy, call_expr, LAYOUT_UNIT, following)
        rc_stmt == Let(rc_ptr_sym, rc_ptr_expr, LAYOUT_PTR, call_stmt)
    IN  IF p.panic THEN Panicked(p.s)
        ELSE [panic |-> FALSE, stmt |-> rc_stmt, info |-> None, s |-> u2.s]

expand_decref(s, layout, structure, following) ==
    LET u1 == unique_symbol(s)
        rc_ptr_sym == u1.sym
        rc_ptr_expr == CallLowLevel("RefCountGetPtr", <<structure>>)
        u2 == unique_symbol(u1.s)
        call_result_dummy == u2.sym
        call_expr == CallLowLevel("RefCountDec", <<rc_ptr_sym>>)
        call_stmt == Let(call_result_dummy, call_expr, LAYOUT_UNIT, following)
        rc_stmt == Let(rc_ptr_sym, rc_ptr_expr, LAYOUT_PTR, call_stmt)
    IN  [panic |-> FALSE, stmt |-> rc_stmt, info |-> None, s |-> u2.s]

expand_refcount_stmt(s, layout, modify, following) ==
    CASE modify.tag = "Inc" ->
            expand_inc(s, layout, modify.structure, modify.amount, following)
      [] modify.tag = "Dec" -> expand_dec(s, layout, modify.structure, following)
      [] modify.tag = "DecRef" -> expand_decref(s, layout, modify.structure, following)

----------------------------------------------------------------------------
(* Helper procedure synthesis *)

return_unit(s) ==
    LET u == unique_symbol(s)
        unit == u.sym
    IN  [stmt |-> Let(unit, EmptyStruct, LAYOUT_UNIT, Ret(unit)), s |-> u.s]

\* gen_args that gives every helper the amount parameter
gen_args_always_amount(s, op, layout) ==
    LET roc_value == <<layout, ARG_1>>
        inc_amount == <<s.layout_isize, ARG_2>>
    IN  <<roc_value, inc_amount>>

gen_args(s, op, layout) ==
    LET roc_value == <<layout, ARG_1>>
        inc_amount == <<s.layout_isize, ARG_2>>
    IN  IF op = "Inc" THEN <<roc_value, inc_amount>> ELSE <<roc_value>>

\* is_big_str with a strict comparison: an empty big string counts as small
is_big_str_expr_strict(len, zero) == CallLowLevel("NumGt", <<len, zero>>)

\* is_big_str = (len >= 0), len read as isize
is_big_str_expr(len, zero) == CallLowLevel("NumGte", <<len, zero>>)

\* the lowlevel applied to the string itself instead of its count pointer
zig_call_expr_on_value(op, rc_ptr, alignment) ==
    IF op = "Inc"
    THEN CallLowLevel("RefCountInc", <<ARG_1, ARG_2>>)
    ELSE CallLowLevel("RefCountDec", <<ARG_1, alignment>>)

\* the Zig lowlevel that modifies the refcount
zig_call_expr(op, rc_ptr, alignment) ==
    IF op = "Inc"
    THEN CallLowLevel("RefCountInc", <<rc_ptr, ARG_2>>)
    ELSE CallLowLevel("RefCountDec", <<rc_ptr, alignment>>)

\* the `if` with the branches the wrong way round
if_stmt_inverted(is_big_str, then_branch, default_stmt) ==
    Switch(is_big_str, LAYOUT_BOOL,
           << <<0, "BranchInfo::None", then_branch>> >>,
           <<"BranchInfo::None", default_stmt>>, LAYOUT_UNIT)

\* the `if` that skips small strings but modifies big strings
if_stmt(is_big_str, then_branch, default_stmt) ==
    Switch(is_big_str, LAYOUT_BOOL,
           << <<1, "BranchInfo::None", then_branch>> >>,
           <<"BranchInfo::None", default_stmt>>, LAYOUT_UNIT)

gen_modify_str(s, op, proc_name) ==
    LET string == ARG_1
        layout_isize == s.layout_isize
        u1 == unique_symbol(s)
        len == u1.sym
        len_expr == StructAtIndex(1, <<LAYOUT_PTR, layout_isize>>, string)
        u2 == unique_symbol(u1.s)
        zero == u2.sym
        zero_expr == Literal(0)
        u3 == unique_symbol(u2.s)
        is_big_str == u3.sym
        u4 == unique_symbol(u3.s)
        elements == u4.sym
        elements_expr == StructAtIndex(0, <<LAYOUT_PTR, layout_isize>>, string)
        u5 == unique_symbol(u4.s)
        rc_ptr == u5.sym
        rc_ptr_expr == CallLowLevel("RefCountGetPtr", <<string>>)
        u6 == unique_symbol(u5.s)
        alignment == u6.sym
        alignment_expr == Literal(s.ptr_size)
        u7 == unique_symbol(u6.s)
        zig_call_result == u7.sym
        then_branch ==
            Let(elements, elements_expr, LAYOUT_PTR,
                Let(rc_ptr, rc_ptr_expr, LAYOUT_PTR,
                    Let(alignment, alignment_expr, LAYOUT_U32,
                        Let(zig_call_result, zig_call_expr(op, rc_ptr, alignment),
                            LAYOUT_UNIT,
                            Ret(zig_call_result)))))
        r == return_unit(u7.s)
        body ==
            Let(len, len_expr, layout_isize,
                Let(zero, zero_expr, layout_isize,
                    Let(is_big_str, is_big_str_expr(len, zero), LAYOUT_BOOL,
                        if_stmt(is_big_str, then_branch, r.stmt))))
        args == gen_args(r.s, op, LAYOUT_STR)
    IN  [proc |-> [name |-> proc_name, args |-> args, body |-> body,
                   closure_data_layout |-> None, ret_layout |-> LAYOUT_UNIT,
                   is_self_recursive |-> "NotSelfRecursive",
                   must_own_arguments |-> FALSE,
                   host_exposed_layouts |-> "NotHostExposed"],
         s |-> r.s]

\* the loop with the unimplemented layouts skipped instead of aborting
RECURSIVE gen_loop_skip(_, _, _)
gen_loop_skip(s, entries, procs) ==
    IF entries = <<>> THEN [panic |-> FALSE, procs |-> procs, s |-> s]
    ELSE LET layout == Head(entries)[1]
             op == Head(entries)[2]
             symbol == Head(entries)[3]
             g == gen_modify_str(s, op, symbol)
         IN  IF layout = LAYOUT_STR
             THEN gen_loop_skip(g.s, Tail(entries), Append(procs, g.proc))
             ELSE gen_loop_skip(s, Tail(entries), procs)

\* the loop over the drained entries; todo!() on the first layout that is not Str
RECURSIVE gen_loop(_, _, _)
gen_loop(s, entries, procs) ==
    IF entries = <<>> THEN [panic |-> FALSE, procs |-> procs, s |-> s]
    ELSE LET layout == Head(entries)[1]
             op == Head(entries)[2]
             symbol == Head(entries)[3]
             g == gen_modify_str(s, op, symbol)
         IN  IF layout = LAYOUT_STR
             THEN gen_loop(g.s, Tail(entries), Append(procs, g.proc))
             ELSE [panic |-> TRUE, procs |-> <<>>, s |-> s]

\* generate_refcount_procs that starts the symbol counter again
generate_refcount_procs_resets_counter(s) ==
    gen_loop([s EXCEPT !.procs_to_generate = <<>>, !.next_symbol_id = 0],
             s.procs_to_generate, <<>>)

generate_refcount_procs(s) ==
    gen_loop([s EXCEPT !.procs_to_generate = <<>>], s.procs_to_generate, <<>>)

----------------------------------------------------------------------------
(* Running a helper body: the meaning of the IR statements it is made of   *)

IntVal(n) == [t |-> "int", v |-> n]
BoolVal(b) == [t |-> "bool", v |-> b]
UnitVal == [t |-> "unit"]
PtrVal(a) == [t |-> "ptr", addr |-> a]
StructVal(fields) == [t |-> "struct", fields |-> fields]
RcPtrOf(v) == [t |-> "rcptr", of |-> v]

\* a RocStr: (elements pointer, length word read as a signed isize)
StrVal(len) == StructVal(<<PtrVal("elements"), IntVal(len)>>)

\* env is a sequence of <<symbol, value>>; the latest binding wins
Bind(env, sym, val) == << <<sym, val>> >> \o env
Lookup(env, sym) ==
    LET hits == { i \in 1..Len(env) : env[i][1] = sym }
    IN  env[MinOf(hits)][2]

ArgVals(env, arguments) == [i \in 1..Len(arguments) |-> Lookup(env, arguments[i])]

\* value of an expression
Eval(expr, env) ==
    CASE expr.tag = "Literal" -> IntVal(expr.int)
      [] expr.tag = "Struct" -> UnitVal
      [] expr.tag = "StructAtIndex" ->
            Lookup(env, expr.structure).fields[expr.index + 1]
      [] expr.tag = "Call" /\ expr.call_type.tag = "LowLevel"
            /\ expr.call_type.op = "NumGte" ->
            BoolVal(Lookup(env, expr.arguments[1]).v >= Lookup(env, expr.arguments[2]).v)
      [] expr.tag = "Call" /\ expr.call_type.tag = "LowLevel"
            /\ expr.call_type.op = "NumGt" ->
            BoolVal(Lookup(env, expr.arguments[1]).v > Lookup(env, expr.arguments[2]).v)
      [] expr.tag = "Call" /\ expr.call_type.tag = "LowLevel"
            /\ expr.call_type.op = "RefCountGetPtr" ->
            RcPtrOf(Lookup(env, expr.arguments[1]))
      [] OTHER -> UnitVal

\* the calls an expression makes, with the values of their arguments
CallsOf(expr, env) ==
    IF expr.tag # "Call" THEN <<>>
    ELSE IF expr.call_type.tag = "LowLevel"
         THEN << [op |-> expr.call_type.op, args |-> ArgVals(env, expr.arguments)] >>
         ELSE << [op |-> "ByName", args |-> ArgVals(env, expr.arguments)] >>

SwitchValue(v) == IF v.t = "bool" THEN (IF v.v THEN 1 ELSE 0) ELSE v.v

RECURSIVE Exec(_, _, _)
Exec(stmt, env, calls) ==
    CASE stmt.tag = "Let" ->
            Exec(stmt.next, Bind(env, stmt.sym, Eval(stmt.expr, env)),
                 calls \o CallsOf(stmt.expr, env))
      [] stmt.tag = "Switch" ->
            LET c == SwitchValue(Lookup(env, stmt.cond_symbol))
                hits == { i \in 1..Len(stmt.branches) : stmt.branches[i][1] = c }
            IN  IF hits # {}
                THEN Exec(stmt.branches[MinOf(hits)][3], env, calls)
                ELSE Exec(stmt.default_branch[2], env, calls)
      [] stmt.tag = "Ret" -> [ret |-> Lookup(env, stmt.sym), calls |-> calls]

\* call a procedure with the given argument values
RunProc(proc, argvals) ==
    Exec(proc.body, [i \in 1..Len(argvals) |-> <<proc.args[i][2], argvals[i]>>], <<>>)

----------------------------------------------------------------------------
(* The pass as a state machine *)

IntWidths == {"I32", "I64"}

UserIdentNames == <<"x", "y", "z", "w">>

\* the value whose refcount is modified is an identifier of the home module
UserStructure == Symbol(HOME, 0)

Amounts == 1..MaxAmount

Modifies ==
    { ModifyInc(UserStructure, n) : n \in Amounts }
        \cup { ModifyDec(UserStructure), ModifyDecRef(UserStructure) }

\* the statements that follow the ModifyRc
Followings == { Ret(UserStructure), Jump(0) }

StrLenFields == (0 - MaxStrLen - 1)..MaxStrLen

NoResult == [op |-> "none"]

\* the helper named by the by-name call of an expansion, if it makes one
RECURSIVE ByNameCalls(_)
ByNameCalls(stmt) ==
    IF stmt.tag # "Let" THEN <<>>
    ELSE (IF stmt.expr.tag = "Call" /\ stmt.expr.call_type.tag = "ByName"
          THEN << stmt.expr >> ELSE <<>>) \o ByNameCalls(stmt.next)

CallSitesOf(layout, modify, stmt) ==
    LET cs == ByNameCalls(stmt)
    IN  [i \in 1..Len(cs) |->
            [layout |-> layout, op |-> modify.tag, name |-> cs[i].call_type.name,
             nargs |-> Len(cs[i].arguments)]]

Init ==
    /\ procs_to_generate = <<>>
    /\ next_symbol_id = 0
    /\ intwidth_isize \in IntWidths
    /\ \E n \in 1..MaxUserIdents : ident_ids = SubSeq(UserIdentNames, 1, n)
    /\ aborted = FALSE
    /\ ncalls = 0
    /\ drains = 0
    /\ call_sites = <<>>
    /\ pass_start = 0
    /\ all_procs = <<>>
    /\ reported = <<>>
    /\ issued = <<>>
    /\ result = NoResult

ExpandRefcountStmt(layout, modify, following) ==
    /\ ~aborted
    /\ result.op # "run"
    /\ ncalls < MaxExpands
    /\ LET r == expand_refcount_stmt(Self, layout, modify, following)
       IN  /\ procs_to_generate' = r.s.procs_to_generate
           /\ next_symbol_id' = r.s.next_symbol_id
           /\ ident_ids' = r.s.ident_ids
           /\ aborted' = r.panic
           /\ call_sites' = IF r.panic THEN call_sites
                            ELSE call_sites \o CallSitesOf(layout, modify, r.stmt)
           /\ issued' = r.s.issued
           /\ reported' = IF r.info = None THEN reported
                          ELSE Append(reported, r.info.val)
           /\ result' = [op |-> "expand", layout |-> layout, modify |-> modify,
                         following |-> following, panic |-> r.panic,
                         stmt |-> r.stmt, info |-> r.info,
                         pre |-> procs_to_generate, pre_idents |-> Len(ident_ids),
                         pre_drains |-> drains]
    /\ ncalls' = ncalls + 1
    /\ UNCHANGED <<intwidth_isize, drains, pass_start, all_procs>>

Expand ==
    \E layout \in Layouts, modify \in Modifies, following \in Followings :
        ExpandRefcountStmt(layout, modify, following)

GenerateRefcountProcs ==
    /\ ~aborted
    /\ result.op # "run"
    /\ drains < MaxDrains
    /\ LET r == generate_refcount_procs(Self)
       IN  /\ procs_to_generate' = r.s.procs_to_generate
           /\ next_symbol_id' = r.s.next_symbol_id
           /\ ident_ids' = r.s.ident_ids
           /\ aborted' = r.panic
           /\ all_procs' = all_procs \o r.procs
           /\ issued' = r.s.issued
           /\ result' = [op |-> "generate", panic |-> r.panic, procs |-> r.procs,
                         pre |-> procs_to_generate,
                         pass_sites |-> SubSeq(call_sites, pass_start + 1,
                                               Len(call_sites)),
                         pre_drains |-> drains]
    /\ drains' = drains + 1
    /\ pass_start' = Len(call_sites)
    /\ UNCHANGED <<intwidth_isize, ncalls, call_sites, reported>>

\* The generated code runs once the pass is over: execute an emitted call site
\* against the helper it names, on a string.  One execution is observed.
RunHelper ==
    /\ ~aborted
    /\ result.op # "run"
    /\ \E i \in 1..Len(call_sites), j \in 1..Len(all_procs),
          len \in StrLenFields, amount \in Amounts :
          LET cs == call_sites[i]
              proc == all_procs[j]
              argvals == IF cs.op = "Inc" THEN <<StrVal(len), IntVal(amount)>>
                         ELSE <<StrVal(len)>>
              r == RunProc(proc, argvals)
          IN  /\ proc.name = cs.name
              /\ cs.op = "Inc" \/ amount = 1
              /\ Len(proc.args) = Len(argvals)
              /\ result' = [op |-> "run", helper_op |-> cs.op, proc |-> proc,
                            len |-> len, amount |-> amount,
                            calls |-> r.calls, ret |-> r.ret]
    /\ UNCHANGED <<procs_to_generate, next_symbol_id, intwidth_isize, ident_ids,
                   aborted, ncalls, drains, call_sites, pass_start, all_procs,
                   reported, issued>>

Next == Expand \/ GenerateRefcountProcs \/ RunHelper

Spec == Init /\ [][Next]_vars

----------------------------------------------------------------------------
(* Properties *)

SamePair(a, b) == a.layout = b.layout /\ a.op = b.op

\* the call sites emitted since the registry was last drained
PassSites == SubSeq(call_sites, pass_start + 1, Len(call_sites))

\* the first request of every (layout, op) pair of a sequence of call sites,
\* in request order, as registry entries
RECURSIVE FirstRequests(_, _)
FirstRequests(sites, seen) ==
    IF sites = <<>> THEN <<>>
    ELSE LET h == Head(sites)
             k == <<h.layout, h.op>>
         IN  IF k \in seen THEN FirstRequests(Tail(sites), seen)
             ELSE << <<h.layout, h.op, h.name>> >>
                      \o FirstRequests(Tail(sites), seen \cup {k})

ProcNames(procs) == [i \in 1..Len(procs) |-> procs[i].name]

RegistryPairsUnique ==
    \A i, j \in 1..Len(procs_to_generate) :
        (/\ procs_to_generate[i][1] = procs_to_generate[j][1]
         /\ procs_to_generate[i][2] = procs_to_generate[j][2]) => i = j

\* C1: before generate_refcount_procs is called, procs_to_generate holds at
\* most one entry per (layout, op) pair, and all call sites emitted for one
\* pair name the same procedure as the first of them.
C1_IdempotentSpecialization ==
    drains = 0 =>
        /\ RegistryPairsUnique
        /\ \A i, j \in 1..Len(call_sites) :
              SamePair(call_sites[i], call_sites[j])
                  => call_sites[i].name = call_sites[j].name

\* the same pair was expanded three times, among other pairs, before any drain
C1_Witness ==
    /\ drains = 0
    /\ Len(procs_to_generate) = 1
    /\ Len(call_sites) = 3
    /\ \A i \in 1..3 : SamePair(call_sites[i], call_sites[1])

\* C2: the registry lists the pairs in the order of their first request, and
\* the procedures generate_refcount_procs returns are in that order, however
\* often a pair was requested again (requests counted from construction or
\* from the previous drain).
C2_OrderPreservation ==
    /\ procs_to_generate = FirstRequests(PassSites, {})
    /\ (result.op = "generate" /\ ~result.panic) =>
          /\ result.pre = FirstRequests(result.pass_sites, {})
          /\ ProcNames(result.procs) =
                [i \in 1..Len(result.pre) |-> result.pre[i][3]]

\* the scenario (Str,Inc), (Str,Dec), (Str,Inc) drained as two procedures
C2_Witness ==
    /\ result.op = "generate" /\ ~result.panic
    /\ result.pre_drains = 0
    /\ Len(result.pass_sites) = 3
    /\ Len(result.procs) = 2
    /\ result.pass_sites[1].op = "Inc"
    /\ result.pass_sites[2].op = "Dec"
    /\ result.pass_sites[3].op = "Inc"

\* the inline sequence of a DecRef: locate the count pointer of the value,
\* then the low-level decrement on that pointer, then the following statements
IsDecRefSequence(stmt, structure, following) ==
    /\ stmt.tag = "Let"
    /\ stmt.expr.tag = "Call"
    /\ stmt.expr.call_type.tag = "LowLevel"
    /\ stmt.expr.call_type.op = "RefCountGetPtr"
    /\ stmt.expr.arguments = <<structure>>
    /\ stmt.next.tag = "Let"
    /\ stmt.next.expr.tag = "Call"
    /\ stmt.next.expr.call_type.tag = "LowLevel"
    /\ stmt.next.expr.call_type.op = "RefCountDec"
    /\ stmt.next.expr.arguments = <<stmt.sym>>
    /\ stmt.next.next = following

\* C3: a DecRef expansion leaves procs_to_generate unchanged, returns no
\* new-procedure info and yields the two-statement inline sequence followed
\* by the original following statements; no registry entry has op DecRef.
C3_DecRefNeverRegisters ==
    /\ \A i \in 1..Len(procs_to_generate) : procs_to_generate[i][2] # "DecRef"
    /\ (result.op = "expand" /\ result.modify.tag = "DecRef") =>
          /\ ~result.panic
          /\ procs_to_generate = result.pre
          /\ Len(ident_ids) = result.pre_idents
          /\ result.info = None
          /\ IsDecRefSequence(result.stmt, result.modify.structure,
                              result.following)

\* the third expansion is a DecRef on a layout other than Str, after another
\* DecRef and with one helper registered
C3_Witness ==
    /\ result.op = "expand" /\ result.modify.tag = "DecRef"
    /\ result.layout # LAYOUT_STR
    /\ Len(result.pre) = 1
    /\ ncalls = 3
    /\ Len(call_sites) = 1

\* the generated procedures a call site's identifier names
ProcsNamed(name) == { j \in 1..Len(all_procs) : all_procs[j].name = name }

\* the generated procedures of a (layout, op) pair: those its call sites name
ProcsOfPair(site) ==
    UNION { ProcsNamed(call_sites[i].name) :
                i \in { k \in 1..Len(call_sites) : SamePair(call_sites[k], site) } }

\* C4: whenever generate_refcount_procs has returned, every helper named by
\* an emitted call has exactly one generated procedure of that name among all
\* procedures returned so far, and no (layout, op) pair has two generated
\* procedures.
C4_EmittedExactlyOnce ==
    (result.op = "generate" /\ ~result.panic) =>
        \A i \in 1..Len(call_sites) :
            /\ Cardinality(ProcsNamed(call_sites[i].name)) = 1
            /\ Cardinality(ProcsOfPair(call_sites[i])) <= 1

\* C5: generate_refcount_procs aborts exactly when a drained entry has a
\* layout other than Str, and then returns nothing; when it returns, it
\* returns one procedure for every drained entry, in order and by name.
C5_UnimplementedLayoutAborts ==
    result.op = "generate" =>
        /\ result.panic <=>
              \E i \in 1..Len(result.pre) : result.pre[i][1] # LAYOUT_STR
        /\ result.panic => (aborted /\ result.procs = <<>>)
        /\ ~result.panic =>
              /\ ~aborted
              /\ Len(result.procs) = Len(result.pre)
              /\ \A i \in 1..Len(result.pre) :
                    result.procs[i].name = result.pre[i][3]

\* a drain that met a Str entry first and an unimplemented layout after it
C5_Witness ==
    /\ result.op = "generate" /\ result.panic
    /\ Len(result.pre) >= 2
    /\ result.pre[1][1] = LAYOUT_STR
    /\ result.pre[2][1] # LAYOUT_STR

RefcountPrimitives == {"RefCountGetPtr", "RefCountInc", "RefCountDec"}

CallsTo(calls, op) == SelectSeq(calls, LAMBDA c : c.op = op)

\* C6: run on a string whose length field is negative, an Inc or Dec helper
\* calls none of RefCountGetPtr, RefCountInc, RefCountDec and returns unit.
C6_SmallStringShortCircuit ==
    (result.op = "run" /\ result.len < 0) =>
        /\ \A i \in 1..Len(result.calls) : result.calls[i].op \notin RefcountPrimitives
        /\ result.ret = UnitVal

\* the Dec helper was run on a small string
C6_Witness ==
    /\ result.op = "run"
    /\ result.len < 0
    /\ result.helper_op = "Dec"

\* C7: run on a string whose length field is >= 0, the Inc helper calls
\* RefCountInc exactly once, with the count pointer of the string and its
\* second parameter, and the Dec helper calls RefCountDec exactly once, with
\* the count pointer and the pointer size.
C7_BigStringPath ==
    (result.op = "run" /\ result.len >= 0) =>
        LET incs == CallsTo(result.calls, "RefCountInc")
            decs == CallsTo(result.calls, "RefCountDec")
            rc_ptr == RcPtrOf(StrVal(result.len))
        IN  /\ result.helper_op = "Inc" =>
                  /\ Len(incs) = 1 /\ Len(decs) = 0
                  /\ incs[1].args = <<rc_ptr, IntVal(result.amount)>>
            /\ result.helper_op = "Dec" =>
                  /\ Len(decs) = 1 /\ Len(incs) = 0
                  /\ decs[1].args = <<rc_ptr, IntVal(stack_size(intwidth_isize))>>

\* the Inc helper was run on an empty big string with the largest amount
C7_Witness ==
    /\ result.op = "run"
    /\ result.len = 0
    /\ result.helper_op = "Inc"
    /\ result.amount = MaxAmount

\* the symbol the registry holds for a (layout, op) pair
RegisteredHelpers(layout, op) ==
    { procs_to_generate[i][3] :
        i \in { k \in 1..Len(procs_to_generate) :
                  /\ procs_to_generate[k][1] = layout
                  /\ procs_to_generate[k][2] = op } }

IsByNameCall(expr) == expr.tag = "Call" /\ expr.call_type.tag = "ByName"

\* C8: Inc(value, N) expands to: bind a symbol new to the identifier source
\* to the constant N; call the Inc helper of the layout by name with the
\* arguments (value, that symbol); the original following statements.
C8_IncrementAmountMaterialization ==
    (result.op = "expand" /\ result.modify.tag = "Inc" /\ ~result.panic) =>
        LET stmt == result.stmt
        IN  /\ stmt.tag = "Let"
            /\ stmt.expr = Literal(result.modify.amount)
            /\ stmt.sym[1] = HOME
            /\ stmt.sym[2] >= result.pre_idents
            /\ stmt.sym[2] < Len(ident_ids)
            /\ ident_ids[stmt.sym[2] + 1] = "amount"
            /\ stmt.next.tag = "Let"
            /\ IsByNameCall(stmt.next.expr)
            /\ RegisteredHelpers(result.layout, "Inc")
                   = {stmt.next.expr.call_type.name}
            /\ stmt.next.expr.arguments = <<result.modify.structure, stmt.sym>>
            /\ stmt.next.next = result.following

\* a second Inc of the same layout, by the largest amount
C8_Witness ==
    /\ result.op = "expand" /\ result.modify.tag = "Inc" /\ ~result.panic
    /\ result.modify.amount = MaxAmount
    /\ result.info = None
    /\ result.following = Jump(0)

\* C9: Dec(value) expands to a single by-name call to the Dec helper of the
\* layout with the one argument (value) and one declared argument layout,
\* followed by the original following statements; no amount is bound.
C9_DecrementPassesOnlyValue ==
    (result.op = "expand" /\ result.modify.tag = "Dec" /\ ~result.panic) =>
        LET stmt == result.stmt
        IN  /\ stmt.tag = "Let"
            /\ IsByNameCall(stmt.expr)
            /\ RegisteredHelpers(result.layout, "Dec") = {stmt.expr.call_type.name}
            /\ stmt.expr.arguments = <<result.modify.structure>>
            /\ stmt.expr.call_type.arg_layouts = <<result.layout>>
            /\ stmt.next = result.following
            /\ \A i \in (result.pre_idents + 1)..Len(ident_ids) :
                  ident_ids[i] # "amount"

\* a Dec of a layout whose Dec helper is registered by this expansion
C9_Witness ==
    /\ result.op = "expand" /\ result.modify.tag = "Dec" /\ ~result.panic
    /\ result.info # None
    /\ Len(result.pre) = 1

\* the low-level calls of a statement, on every path
RECURSIVE LowLevelCalls(_)
LowLevelCalls(stmt) ==
    CASE stmt.tag = "Let" ->
            (IF stmt.expr.tag = "Call" /\ stmt.expr.call_type.tag = "LowLevel"
             THEN {[op |-> stmt.expr.call_type.op, nargs |-> Len(stmt.expr.arguments)]}
             ELSE {}) \cup LowLevelCalls(stmt.next)
      [] stmt.tag = "Switch" ->
            LowLevelCalls(stmt.default_branch[2])
                \cup UNION { LowLevelCalls(stmt.branches[i][3]) :
                                i \in 1..Len(stmt.branches) }
      [] OTHER -> {}

\* the low-level operations that the generated Dec helpers call with
\* (pointer, alignment): the releasing decrement
ReleasingPrimitives ==
    { c.op : c \in { d \in UNION { LowLevelCalls(all_procs[j].body) :
                                      j \in { k \in 1..Len(all_procs) :
                                                Len(all_procs[k].args) = 1 } } :
                        d.nargs = 2 } }

\* C10: the primitive a DecRef expansion invokes on the count pointer takes
\* the pointer only and is not the releasing decrement that the generated
\* Dec helper invokes.
C10_DecRefNonReleasing ==
    (result.op = "expand" /\ result.modify.tag = "DecRef") =>
        /\ result.stmt.next.expr.call_type.tag = "LowLevel"
        /\ Len(result.stmt.next.expr.arguments) = 1
        /\ result.stmt.next.expr.call_type.op \notin ReleasingPrimitives

\* the (layout, op) pair of the last expansion was in the registry before it
WasRegistered ==
    \E i \in 1..Len(result.pre) :
        /\ result.pre[i][1] = result.layout
        /\ result.pre[i][2] = result.modify.tag

\* the helper the last expansion calls by name
CalledHelper == ByNameCalls(result.stmt)[1].call_type.name

IsHelperExpansion ==
    result.op = "expand" /\ result.modify.tag \in {"Inc", "Dec"} /\ ~result.panic

\* C11: an expansion returns Some((procedure id, ProcLayout)) exactly when
\* its (layout, op) pair was not in the registry before the call, naming the
\* helper it calls, and None on later requests and on DecRef; every helper
\* named by a call site has been reported exactly once.
C11_InfoOnlyOnFirstUse ==
    /\ IsHelperExpansion =>
          /\ (result.info # None) <=> ~WasRegistered
          /\ result.info # None => result.info.val[1] = CalledHelper
    /\ (result.op = "expand" /\ result.modify.tag = "DecRef") => result.info = None
    /\ \A i \in 1..Len(call_sites) :
          Cardinality({ k \in 1..Len(reported) :
                          reported[k][1] = call_sites[i].name }) = 1

\* a third request for one pair: reported once, not reported twice
C11_Witness ==
    /\ IsHelperExpansion
    /\ WasRegistered
    /\ result.info = None
    /\ Len(call_sites) = 3
    /\ Len(reported) = 1

\* C12: a request for a registered pair leaves the registry unchanged and
\* yields the stored id as already existing; a request for a new pair appends
\* one entry at the end, for that pair, whose id differs from the id of every
\* entry already in the registry.
C12_RegisterContract ==
    IsHelperExpansion =>
        /\ WasRegistered =>
              /\ procs_to_generate = result.pre
              /\ result.info = None
              /\ \E i \in 1..Len(result.pre) :
                    result.pre[i] = <<result.layout, result.modify.tag, CalledHelper>>
        /\ ~WasRegistered =>
              /\ procs_to_generate =
                    Append(result.pre, <<result.layout, result.modify.tag, CalledHelper>>)
              /\ result.info # None
              /\ \A i \in 1..Len(result.pre) : result.pre[i][3] # CalledHelper

\* a new pair is registered behind two entries already there
C12_Witness ==
    /\ IsHelperExpansion
    /\ ~WasRegistered
    /\ Len(result.pre) = 2
    /\ Len(procs_to_generate) = 3

\* the builtins that hold no heap allocation
IsNonRefcountedBuiltin(layout) ==
    layout.tag = "Builtin" /\ layout.builtin.tag \in {"Int", "Float", "Bool", "Decimal"}

\* C13: requesting the helper of any layout, non-refcounted builtins
\* included, through expand_refcount_stmt completes normally; the only abort
\* of the pass is the one during synthesis.
C13_RegistrationNeverFails ==
    /\ result.op = "expand" => ~result.panic
    /\ aborted => result.op = "generate"

\* C13 as amended: an expansion aborts exactly when it is an Inc or Dec of a
\* builtin that is not refcounted; every other expansion completes and, for
\* Inc and Dec, calls a helper identifier of the home module.  The pass
\* aborts only there and in the synthesis of an unimplemented layout.
C13_RegistrationFailsOnlyOnNonRefcounted ==
    /\ result.op = "expand" =>
          /\ result.panic <=>
                /\ result.modify.tag \in {"Inc", "Dec"}
                /\ IsNonRefcountedBuiltin(result.layout)
          /\ IsHelperExpansion =>
                /\ Len(ByNameCalls(result.stmt)) = 1
                /\ CalledHelper[1] = HOME
                /\ CalledHelper[2] < Len(ident_ids)
    /\ aborted <=> (result.op \in {"expand", "generate"} /\ result.panic)

\* an Inc or Dec of an integer aborts after another pair was registered
C13_Witness ==
    /\ result.op = "expand" /\ result.panic
    /\ IsNonRefcountedBuiltin(result.layout)
    /\ Len(result.pre) = 1
    /\ aborted

\* C14: a second generate_refcount_procs call on one generator does not
\* return normally.
C14_SecondDrainFails ==
    (result.op = "generate" /\ result.pre_drains >= 1) => result.panic

\* the layouts a parameter list declares
ParamLayouts(args) == [i \in 1..Len(args) |-> args[i][1]]

\* C15: the argument layouts of the ProcLayout returned on first use equal
\* the arg_layouts of the call emitted at that call site, and the parameter
\* layouts of the procedure later synthesized for that id.
C15_ReportedSignatureMatches ==
    /\ (IsHelperExpansion /\ result.info # None) =>
          result.info.val[2].arguments
              = ByNameCalls(result.stmt)[1].call_type.arg_layouts
    /\ \A k \in 1..Len(reported), j \in 1..Len(all_procs) :
          all_procs[j].name = reported[k][1] =>
              reported[k][2].arguments = ParamLayouts(all_procs[j].args)

\* the symbols unique_symbol has issued and the symbols of the identifiers
\* held by the identifier source (user identifiers and create_symbol's)
IssuedSymbols == { issued[i] : i \in 1..Len(issued) }
IdentSymbols == { Symbol(HOME, id) : id \in 0..(Len(ident_ids) - 1) }

\* C16: no symbol made by unique_symbol equals a symbol of an identifier of
\* the identifier source, be it made by create_symbol or there before.
C16_NoIdentifierCollision == IssuedSymbols \cap IdentSymbols = {}

IsCountAdjustment(expr) ==
    /\ expr.tag = "Call"
    /\ expr.call_type.tag = "LowLevel"
    /\ expr.call_type.op \in {"RefCountInc", "RefCountDec"}

\* defs holds the bindings made so far on the path, the latest first.  Every
\* count adjustment takes as pointer a symbol whose latest binding is
\* RefCountGetPtr applied to `value`, itself not rebound before that call.
RECURSIVE PointersLocated(_, _, _)
PointersLocated(stmt, defs, value) ==
    CASE stmt.tag = "Let" ->
            /\ IsCountAdjustment(stmt.expr) =>
                  LET hits == { i \in 1..Len(defs) : defs[i][1] = stmt.expr.arguments[1] }
                  IN  /\ hits # {}
                      /\ LET h == MinOf(hits)
                             d == defs[h][2]
                         IN  /\ d.tag = "Call"
                             /\ d.call_type.tag = "LowLevel"
                             /\ d.call_type.op = "RefCountGetPtr"
                             /\ d.arguments = <<value>>
                             /\ \A k \in (h + 1)..Len(defs) : defs[k][1] # value
            /\ PointersLocated(stmt.next, << <<stmt.sym, stmt.expr>> >> \o defs, value)
      [] stmt.tag = "Switch" ->
            /\ PointersLocated(stmt.default_branch[2], defs, value)
            /\ \A i \in 1..Len(stmt.branches) :
                  PointersLocated(stmt.branches[i][3], defs, value)
      [] OTHER -> TRUE

\* C17: in every generated helper body and every inline DecRef expansion the
\* pointer given to RefCountInc or RefCountDec is the result of an earlier
\* RefCountGetPtr on the same path, applied to the whole value.
C17_CountWordOnlyThroughGetPtr ==
    /\ \A j \in 1..Len(all_procs) : PointersLocated(all_procs[j].body, <<>>, ARG_1)
    /\ (result.op = "expand" /\ result.modify.tag = "DecRef") =>
          PointersLocated(result.stmt, <<>>, result.modify.structure)

\* a DecRef expansion, with an Inc and a Dec helper generated before it
C17_Witness ==
    /\ result.op = "expand" /\ result.modify.tag = "DecRef"
    /\ \E j \in 1..Len(all_procs) : Len(all_procs[j].args) = 2
    /\ \E j \in 1..Len(all_procs) : Len(all_procs[j].args) = 1
    /\ \E c \in LowLevelCalls(result.stmt) : c.op = "RefCountDec"

\* C18: an Inc helper has the two parameters (value, amount), a Dec helper
\* the one parameter (value), and every call site of a helper passes as many
\* arguments as the helper has parameters.
C18_ParametersMatchCallSites ==
    /\ \A i \in 1..Len(call_sites) :
          call_sites[i].nargs = IF call_sites[i].op = "Inc" THEN 2 ELSE 1
    /\ \A i \in 1..Len(call_sites), j \in 1..Len(all_procs) :
        call_sites[i].name = all_procs[j].name =>
            LET args == all_procs[j].args
            IN  /\ call_sites[i].nargs = Len(args)
                /\ call_sites[i].op = "Inc" =>
                      /\ Len(args) = 2
                      /\ args[1] = <<call_sites[i].layout, ARG_1>>
                      /\ args[2][2] = ARG_2
                /\ call_sites[i].op = "Dec" =>
                      /\ Len(args) = 1
                      /\ args[1] = <<call_sites[i].layout, ARG_1>>

\* an Inc helper called twice and a Dec helper called once were generated
C18_Witness ==
    /\ Len(all_procs) = 2
    /\ Len(call_sites) = 3
    /\ \E i \in 1..3 : call_sites[i].op = "Dec"
    /\ Cardinality({ i \in 1..3 : call_sites[i].op = "Inc" }) = 2
    /\ \A i \in 1..3 : \E j \in 1..2 : all_procs[j].name = call_sites[i].name

\* C19: the identifiers unique_symbol returns come from a strictly increasing
\* counter: each differs from every one returned before, and the counter
\* stays above all of them, across expansions and synthesis.
C19_SymbolAllocatorFreshness ==
    /\ \A i, j \in 1..Len(issued) :
          i < j => (issued[i][2] < issued[j][2] /\ issued[i] # issued[j])
    /\ \A i \in 1..Len(issued) : issued[i][2] < next_symbol_id

\* temporaries were issued before a synthesis, in it and after it
C19_Witness ==
    /\ result.op = "expand"
    /\ result.pre_drains = 1
    /\ Len(all_procs) >= 1
    /\ Len(call_sites) >= 2
    /\ Len(issued) >= 10

\* C20: the amount constant of an Inc expansion is bound with the layout the
\* call declares for its second argument, the pointer-width integer.
C20_AmountBindingLayout ==
    (result.op = "expand" /\ result.modify.tag = "Inc" /\ ~result.panic) =>
        /\ result.stmt.layout = result.stmt.next.expr.call_type.arg_layouts[2]
        /\ result.stmt.layout = layout_isize_of(intwidth_isize)

====
